---- MODULE Spec2Model ----
(***************************************************************************)
(* Pair-based chat memory manager (app/langgraph/memory_manager.py,        *)
(* app/langgraph/memory_utils.py) for ONE conversation thread id, served   *)
(* by one or more process instances that share one DynamoDB table.         *)
(*                                                                         *)
(* Every public method of MemoryManager runs its body under the            *)
(* per-thread threading.Lock, so a call is one atomic action.  The table,  *)
(* the clock and process crashes are the environment.  Message content is  *)
(* abstracted to an identity `id` (the creation index of the message).     *)
(* Every Message is built with an integer seq (memory_manager.py:262,289;  *)
(* memory_utils.py:163,297,308), so the `missing` list of                  *)
(* _assign_seqs_for_flush is empty in every call made by the manager.      *)
(***************************************************************************)
EXTENDS Integers, Sequences, FiniteSets, TLC

\* ---- bounds of the model ----
NumInstances == 2
MaxMessages == 6
MaxLegacyMessages == 2
MaxMultiMessages == 4
MaxRestarts == 1
MaxSnapshotPairs == 3
NumWorkers == 3
PairsPerWorker == 2
NumCallers == 3
MaxCount == 2
MaxAccountPairs == 56
MaxWritePairs == 14
MaxThreads == 2
MaxFlushSeconds == 31
NumClients == 2
NumThreadIds == 2
MaxCalls == 2
MaxFaults == 1
MaxMissing == 3

Instances == 1..NumInstances
Workers == 1..NumWorkers
Callers == 1..NumCallers
Clients == 1..NumClients
ThreadIds == 1..NumThreadIds

VARIABLES
    config,       \* the configuration read from the environment at import
    threads,      \* instance -> ThreadState of the thread id (MemoryManager.threads)
    table,        \* message rows of the thread in the DynamoDB table (seq > 0)
    snapshot,     \* the conversation-state item at seq = -1 (absent or its messages)
    meta_row,     \* the COUNTERS row at seq = 0: next_seq, or -1 when the row is absent
    uuid_count,   \* number of uuid4() values drawn so far
    restarts,     \* number of process crashes so far
    produced,     \* history: seq of every message built by add_user/add_assistant_message
    last_call,    \* history: the last public call and how it ended
    worker,       \* test_thread_safety workers: calls done and result
    caller,       \* _reserve_seq_block callers: position, count and returned start
    writer,       \* a _batch_write_pairs call in progress: position, argument, items, chunk, backoff
    sweep,        \* _shutdown_hook of a manager holding several thread ids
    mgr,          \* one manager, several thread ids, request threads inside public calls
    discarded     \* history: seqs of the user messages flush_all dropped with their open pair

vars == <<config, threads, table, snapshot, meta_row, uuid_count, restarts, produced,
          last_call, worker, caller, writer, sweep, mgr, discarded>>

\* ---- configuration (memory_utils.py:21-24): int(os.getenv(...)) ----
SESSION_IDLE_SECONDS == config.SESSION_IDLE_SECONDS

CONTEXT_PAIRS == config.CONTEXT_PAIRS

BATCH_PAIRS == config.BATCH_PAIRS

MAX_RAM_PAIRS == config.MAX_RAM_PAIRS

Config(idle, context, batch, ram) ==
    [SESSION_IDLE_SECONDS |-> idle, CONTEXT_PAIRS |-> context,
     BATCH_PAIRS |-> batch, MAX_RAM_PAIRS |-> ram]

\* ---- entity layer (memory_utils.py:27-76) ----
NoMessage == [role |-> "none", seq |-> 0, turn |-> 0, id |-> 0]

NoPair == [turn |-> 0, user_message |-> NoMessage, assistant_message |-> NoMessage]

Message(role, seq, turn, id) == [role |-> role, seq |-> seq, turn |-> turn, id |-> id]

Pair(turn, user_message) ==
    [turn |-> turn, user_message |-> user_message, assistant_message |-> NoMessage]

is_complete(pair) == pair.assistant_message # NoMessage

\* ThreadState defaults; `exists` is membership of the thread id in self.threads,
\* idle_time is time.time() - last_activity_at (capped above the idle threshold),
\* lock is the per-thread threading.Lock.
NoThreadState ==
    [exists |-> FALSE, session_id |-> 0, idle_time |-> 0, next_seq |-> 1,
     next_turn |-> 1, context_pairs |-> <<>>, batch_pairs |-> <<>>,
     open_pair |-> NoPair, lock |-> "free"]

NewThreadState(uuid) == [NoThreadState EXCEPT !.exists = TRUE, !.session_id = uuid]

\* ---- generic helpers ----
Max(S) == CHOOSE x \in S : \A y \in S : y <= x

Min2(a, b) == IF a <= b THEN a ELSE b

Range(s) == {s[k] : k \in DOMAIN s}

RECURSIVE Reverse(_)
Reverse(s) == IF s = <<>> THEN <<>> ELSE Append(Reverse(Tail(s)), Head(s))

Take(s, n) == SubSeq(s, 1, Min2(n, Len(s)))

RECURSIVE SortedDescending(_)
SortedDescending(S) ==
    IF S = {} THEN <<>> ELSE <<Max(S)>> \o SortedDescending(S \ {Max(S)})

\* ---- durable store: rows written by _batch_write_pairs (memory_manager.py:143-200) ----
Item(msg, turn, session_id) ==
    [seq |-> msg.seq, turn |-> turn, role |-> msg.role, id |-> msg.id,
     session_id |-> session_id]

\* One record per message: the user item, then the assistant item when present.
PairItems(p, session_id) ==
    (IF p.user_message # NoMessage
        THEN <<Item(p.user_message, p.turn, session_id)>> ELSE <<>>)
    \o (IF p.assistant_message # NoMessage
        THEN <<Item(p.assistant_message, p.turn, session_id)>> ELSE <<>>)

RECURSIVE Items(_, _)
Items(pairs, session_id) ==
    IF pairs = <<>> THEN <<>>
    ELSE PairItems(Head(pairs), session_id) \o Items(Tail(pairs), session_id)

HasDuplicateKey_Never(items) == FALSE

\* The defensive dup-key guard: two items of one batch with the same (thread_id, seq).
HasDuplicateKey(items) ==
    \E j, k \in DOMAIN items : j < k /\ items[j].seq = items[k].seq

\* PutRequest semantics of batch_write_item: a row with the same key is replaced.
PutAll(tbl, items) ==
    {r \in tbl : \A k \in DOMAIN items : items[k].seq # r.seq} \cup Range(items)

\* What the store answers to batch_write_item: it accepts the items, or the client
\* raises ClientError (throttling, outage) and nothing of the request is written.
WriteOutcomes == {"ok", "ClientError"}

\* _batch_write_pairs: the exception raised ("none" when it returns) and the table after.
batch_write_pairs(tbl, pairs, session_id, outcome) ==
    IF pairs = <<>> THEN [raised |-> "none", table |-> tbl]
    ELSE IF HasDuplicateKey(Items(pairs, session_id))
        THEN [raised |-> "RuntimeError", table |-> tbl]
    ELSE IF outcome = "ClientError" THEN [raised |-> "ClientError", table |-> tbl]
    ELSE [raised |-> "none", table |-> PutAll(tbl, Items(pairs, session_id))]

\* ---- _batch_write_pairs step by step (memory_manager.py:186-200) ----
CHUNK == 25

\* backoff in half seconds: 0.5 s at the start of a chunk.
InitialBackoff == 1

\* time.sleep(min(backoff, 4.0)): the seconds slept, in half seconds.
SleepTime(backoff) == Min2(backoff, 8)

\* backoff *= 2; values above 4.0 s all sleep 4.0 s and are kept as one value.
NextBackoff(backoff) == Min2(backoff * 2, 16)

\* No call in progress.
NoWrite ==
    [pc |-> "idle", pairs |-> <<>>, items |-> <<>>, i |-> 0, chunk |-> <<>>,
     backoff |-> 0, sleep |-> 0]

ChunkAt_Whole(items, i) == SubSeq(items, i + 1, Len(items))

\* items[i:i+CHUNK] (i counts from 0)
ChunkAt(items, i) == SubSeq(items, i + 1, Min2(i + CHUNK, Len(items)))

\* The head of `while i < len(items)`: the next chunk with a fresh backoff, or return.
WhileItems(wr) ==
    IF wr.i < Len(wr.items)
    THEN [wr EXCEPT !.pc = "write", !.chunk = ChunkAt(wr.items, wr.i),
                    !.backoff = InitialBackoff]
    ELSE [wr EXCEPT !.pc = "done", !.chunk = <<>>]

\* ---- _shutdown_hook (memory_manager.py:410-438) ----
timeout_seconds == 30

\* The hook has not run; the manager holds no thread state.
NoSweep ==
    [pc |-> "idle", registry |-> <<>>, states |-> <<>>, tables |-> <<>>,
     locks |-> {}, thread_ids |-> <<>>, k |-> 0, elapsed |-> 0, started |-> <<>>,
     outcomes |-> <<>>]

\* ---- the manager object (memory_manager.py:28-52) ----
\* A request thread outside any call.  `during`: the clients that have been inside
\* one store call on another thread id ever since this client's last call began.
NoProc == [pc |-> "idle", op |-> "none", tid |-> 0, ref |-> 0, during |-> {}]

\* After __init__: _global_lock free (owner 0), self.threads empty (registry maps a
\* thread id to its ThreadState object, 0 when absent), no ThreadState object.
\* objects[o], thread_id[o], lock[o]: the fields of object o and the owner of its lock.
NoManager ==
    [global_lock |-> 0, registry |-> [t \in ThreadIds |-> 0], objects |-> <<>>,
     thread_id |-> <<>>, lock |-> <<>>, tables |-> [t \in ThreadIds |-> {}],
     proc |-> [c \in Clients |-> NoProc], calls |-> 0]

\* ---- durable store: reads (memory_utils.py:139-195, 271-335) ----
ReadLimit(n) == n * 2 + 10

\* query(seq > 0, ScanIndexForward=False, Limit): the Limit rows of greatest seq.
Retrieved(tbl, limit) ==
    {r \in tbl : Cardinality({q \in tbl : q.seq > r.seq}) < limit}

\* messages_by_turn[turn][role]: the rows are visited newest first and a later
\* row replaces an earlier one, so the row of smallest seq is the one kept.
KeptRow(rows, turn, role) ==
    LET same == {r \in rows : r.turn = turn /\ r.role = role}
    IN CHOOSE r \in same : \A q \in same : r.seq <= q.seq

CompleteTurns(rows) ==
    {t \in {r.turn : r \in rows} :
        /\ \E r \in rows : r.turn = t /\ r.role = "user"
        /\ \E r \in rows : r.turn = t /\ r.role = "assistant"}

RowMessage(r) == Message(r.role, r.seq, r.turn, r.id)

RowPair(rows, t) ==
    [turn |-> t,
     user_message |-> RowMessage(KeptRow(rows, t, "user")),
     assistant_message |-> RowMessage(KeptRow(rows, t, "assistant"))]

RECURSIVE TurnsToPairs(_, _)
TurnsToPairs(rows, turns) ==
    IF turns = <<>> THEN <<>>
    ELSE <<RowPair(rows, Head(turns))>> \o TurnsToPairs(rows, Tail(turns))

\* read_pairs_from_dynamodb: the last n complete pairs, oldest first; [] on ClientError.
read_pairs_from_dynamodb(tbl, n, query_ok) ==
    IF ~query_ok THEN <<>>
    ELSE LET rows == Retrieved(tbl, ReadLimit(n))
             newest_first == SortedDescending(CompleteTurns(rows))
         IN Reverse(Take(TurnsToPairs(rows, newest_first), n))

\* The seq = -1 item: absent, or its `messages` list of {role, turn} entries.
NoItem == [present |-> FALSE, messages |-> <<>>]

RECURSIVE ParseMessages(_, _, _)
ParseMessages(messages, pairs, current_pair) ==
    IF messages = <<>>
    THEN IF current_pair # NoPair THEN Append(pairs, current_pair) ELSE pairs
    ELSE LET msg == Head(messages) IN
         IF msg.role = "user"
         THEN ParseMessages(Tail(messages), pairs,
                            Pair(msg.turn, Message("user", 1, msg.turn, msg.id)))
         ELSE IF msg.role = "assistant" /\ current_pair # NoPair
         THEN ParseMessages(Tail(messages),
                  Append(pairs, [current_pair EXCEPT !.assistant_message =
                                     Message("assistant", 2, msg.turn, msg.id)]),
                  NoPair)
         ELSE ParseMessages(Tail(messages), pairs, current_pair)

\* load_conversation_state_from_dynamodb: the seq = -1 item when get_item returns
\* one, else (no item, or get_item raised) the row scan of the last CONTEXT_PAIRS.
load_conversation_state_from_dynamodb(snap, tbl, get_ok, query_ok) ==
    IF get_ok /\ snap.present THEN ParseMessages(snap.messages, <<>>, NoPair)
    ELSE read_pairs_from_dynamodb(tbl, CONTEXT_PAIRS, query_ok)

\* ---- MemoryManager helpers (memory_manager.py:42-88) ----
\* _get_thread_state: the ThreadState of the thread id, created on first access.
GetThreadState(i) ==
    IF threads[i].exists THEN threads[i] ELSE NewThreadState(uuid_count + 1)

mark_activity(ts) == [ts EXCEPT !.idle_time = 0]

is_session_idle_AtLimit(ts) == ts.idle_time >= SESSION_IDLE_SECONDS

\* idle_time > SESSION_IDLE_SECONDS (memory_manager.py:60-61)
is_session_idle(ts) == ts.idle_time > SESSION_IDLE_SECONDS

evict_oldest_pair_to_batch(ts) ==
    IF ts.context_pairs # <<>>
    THEN [ts EXCEPT !.context_pairs = Tail(ts.context_pairs),
                    !.batch_pairs = Append(ts.batch_pairs, Head(ts.context_pairs))]
    ELSE ts

\* A call in progress: the thread state, the table and the exception raised so far.
Running(ts, tbl) == [ts |-> ts, table |-> tbl, raised |-> "none"]

Raise(ts, tbl, exc) == [ts |-> ts, table |-> tbl, raised |-> exc]

WriteAndClearBatch_Kept(ts, tbl, outcome) ==
    LET w == batch_write_pairs(tbl, ts.batch_pairs, ts.session_id, outcome)
    IN IF w.raised # "none" THEN Raise(ts, tbl, w.raised) ELSE Running(ts, w.table)

\* Write `batch_pairs` and clear it; an exception of the write skips the clear.
WriteAndClearBatch(ts, tbl, outcome) ==
    LET w == batch_write_pairs(tbl, ts.batch_pairs, ts.session_id, outcome)
    IN IF w.raised # "none" THEN Raise(ts, tbl, w.raised)
       ELSE Running([ts EXCEPT !.batch_pairs = <<>>], w.table)

check_and_flush_batch_Late(ts, tbl, outcome) ==
    IF Len(ts.batch_pairs) > BATCH_PAIRS
    THEN WriteAndClearBatch(ts, tbl, outcome) ELSE Running(ts, tbl)

check_and_flush_batch(ts, tbl, outcome) ==
    IF Len(ts.batch_pairs) >= BATCH_PAIRS
    THEN WriteAndClearBatch(ts, tbl, outcome) ELSE Running(ts, tbl)

enforce_ram_limit(ts, tbl, outcome) ==
    IF Len(ts.context_pairs) + Len(ts.batch_pairs) > MAX_RAM_PAIRS
    THEN WriteAndClearBatch(ts, tbl, outcome) ELSE Running(ts, tbl)

\* ---- public operations as functions of the state (memory_manager.py:203-379) ----
\* add_user_message: no check of open_pair; the open pair is (re)placed.
add_user_message(ts0, tbl, id) ==
    LET ts == mark_activity(ts0)
        seq == ts.next_seq
        turn == ts.next_turn
        user_message == Message("user", seq, turn, id)
    IN Running([ts EXCEPT !.next_seq = seq + 1,
                          !.open_pair = Pair(turn, user_message)], tbl)

HasOpenPair_Unchecked(ts) == TRUE

\* `if not thread_state.open_pair` (memory_manager.py:281)
HasOpenPair(ts) == ts.open_pair # NoPair

add_assistant_message(ts0, tbl, id, w1, w2) ==
    LET ts == mark_activity(ts0) IN
    IF ~HasOpenPair(ts) THEN Raise(ts, tbl, "ValueError")
    ELSE LET seq == ts.next_seq
             assistant_message == Message("assistant", seq, ts.open_pair.turn, id)
             completed_pair ==
                 [ts.open_pair EXCEPT !.assistant_message = assistant_message]
             ts1 == [ts EXCEPT !.next_seq = seq + 1,
                               !.open_pair = NoPair,
                               !.next_turn = ts.next_turn + 1,
                               !.context_pairs = Append(ts.context_pairs, completed_pair)]
             ts2 == IF Len(ts1.context_pairs) > CONTEXT_PAIRS
                    THEN evict_oldest_pair_to_batch(ts1) ELSE ts1
             flushed == check_and_flush_batch(ts2, tbl, w1)
         IN IF flushed.raised # "none" THEN flushed
            ELSE enforce_ram_limit(flushed.ts, flushed.table, w2)

flush_batch(ts, tbl, outcome) ==
    IF ts.batch_pairs # <<>> THEN WriteAndClearBatch(ts, tbl, outcome)
    ELSE Running(ts, tbl)

\* The pairs flush_all collects: context_pairs, then batch_pairs, then the open
\* pair when it is complete.
AllPairs(ts) ==
    ts.context_pairs \o ts.batch_pairs
    \o (IF ts.open_pair # NoPair /\ is_complete(ts.open_pair)
        THEN <<ts.open_pair>> ELSE <<>>)

flush_all(ts, tbl, outcome) ==
    LET all_pairs == AllPairs(ts)
        w == batch_write_pairs(tbl, all_pairs, ts.session_id, outcome)
    IN IF w.raised # "none" THEN Raise(ts, tbl, w.raised)
       ELSE Running([ts EXCEPT !.context_pairs = <<>>, !.batch_pairs = <<>>,
                               !.open_pair = NoPair], w.table)

\* Pair.to_messages (memory_utils.py:50-55): the user entry, then the assistant
\* entry when the pair has one; `id` stands for the content.
to_messages(pair) ==
    <<[role |-> pair.user_message.role, id |-> pair.user_message.id]>>
    \o (IF pair.assistant_message # NoMessage
        THEN <<[role |-> pair.assistant_message.role, id |-> pair.assistant_message.id]>>
        ELSE <<>>)

RECURSIVE Flatten(_)
Flatten(pairs) ==
    IF pairs = <<>> THEN <<>> ELSE to_messages(Head(pairs)) \o Flatten(Tail(pairs))

\* get_context_for_llm: what the call returns on thread state ts; it changes nothing.
get_context_for_llm(ts) ==
    Flatten(ts.context_pairs)
    \o (IF ts.open_pair # NoPair
        THEN <<[role |-> ts.open_pair.user_message.role,
                id |-> ts.open_pair.user_message.id]>>
        ELSE <<>>)

MaxSeq_UserOnly(pairs) ==
    Max({0} \cup {pairs[k].user_message.seq : k \in DOMAIN pairs})

MaxSeq(pairs) ==
    Max({0} \cup {pairs[k].user_message.seq : k \in DOMAIN pairs}
            \cup {pairs[k].assistant_message.seq : k \in DOMAIN pairs})

MaxTurn(pairs) == Max({pairs[k].turn : k \in DOMAIN pairs})

\* The reload of on_session_start (memory_manager.py:219-238).
load_context(ts, pairs) ==
    IF pairs # <<>>
    THEN [ts EXCEPT !.context_pairs = pairs,
                    !.next_turn = MaxTurn(pairs) + 1,
                    !.next_seq = MaxSeq(pairs) + 1]
    ELSE [ts EXCEPT !.context_pairs = pairs]

\* on_session_start takes thread_state.lock and, when the session is idle, calls
\* flush_all, which takes the same threading.Lock again: the lock is not
\* re-entrant, so the call blocks there for ever with the lock held.
on_session_start(ts, snap, tbl, get_ok, query_ok) ==
    IF is_session_idle(ts)
    THEN Raise([ts EXCEPT !.lock = "on_session_start"], tbl, "blocked")
    ELSE IF ts.context_pairs = <<>>
    THEN Running(mark_activity(load_context(ts,
             load_conversation_state_from_dynamodb(snap, tbl, get_ok, query_ok))), tbl)
    ELSE Running(mark_activity(ts), tbl)

\* ---- _reserve_seq_block (memory_manager.py:90-122) ----
\* put_item with attribute_not_exists: creates the COUNTERS row with next_seq = 0
\* when it is absent; ConditionalCheckFailedException is swallowed.
PutIfAbsent(row) == IF row = -1 THEN 0 ELSE row

\* update_item "ADD next_seq :inc" with ReturnValues UPDATED_NEW.
AtomicAdd(row, count) == row + count

BlockStart_OffByOne(end_seq, count) == end_seq - count

\* start_seq = end_seq - count + 1
BlockStart(end_seq, count) == end_seq - count + 1

\* The whole call: the start of the block and the counter row after it.
reserve_seq_block(row, count) ==
    IF count <= 0 THEN [start |-> 0, row |-> row]
    ELSE LET end_seq == AtomicAdd(PutIfAbsent(row), count)
         IN [start |-> BlockStart(end_seq, count), row |-> end_seq]

\* ---- _assign_seqs_for_flush (memory_manager.py:124-141) ----
\* A message that was given no seq (seq is None) is written with the seq of
\* NoMessage, a value no message with a seq holds: seqs start at 1.
NoSeq == NoMessage.seq

HasSeq_Never(msg) == FALSE

\* isinstance(msg.seq, int)
HasSeq(msg) == msg.seq # NoSeq

\* The messages of the pairs in the order of the loop: user, then assistant.
RECURSIVE MessagesOf(_)
MessagesOf(pairs) ==
    IF pairs = <<>> THEN <<>>
    ELSE LET p == Head(pairs)
         IN (IF p.user_message # NoMessage THEN <<p.user_message>> ELSE <<>>)
            \o (IF p.assistant_message # NoMessage THEN <<p.assistant_message>> ELSE <<>>)
            \o MessagesOf(Tail(pairs))

Missing(pairs) == SelectSeq(MessagesOf(pairs), LAMBDA m : ~HasSeq(m))

\* msg.seq = start + i over the missing messages, the others untouched.
RECURSIVE AssignFrom(_, _)
AssignFrom(pairs, next) ==
    IF pairs = <<>> THEN <<>>
    ELSE LET p == Head(pairs)
             um == p.user_message
             am == p.assistant_message
             set_um == um # NoMessage /\ ~HasSeq(um)
             after_um == IF set_um THEN next + 1 ELSE next
             set_am == am # NoMessage /\ ~HasSeq(am)
             after_am == IF set_am THEN after_um + 1 ELSE after_um
         IN <<[p EXCEPT !.user_message = IF set_um THEN [um EXCEPT !.seq = next] ELSE um,
                        !.assistant_message =
                            IF set_am THEN [am EXCEPT !.seq = after_um] ELSE am]>>
            \o AssignFrom(Tail(pairs), after_am)

\* The pairs after the call and the counter row after it.
assign_seqs_for_flush(pairs, row) ==
    IF Missing(pairs) = <<>> THEN [pairs |-> pairs, row |-> row]
    ELSE LET block == reserve_seq_block(row, Len(Missing(pairs)))
         IN [pairs |-> AssignFrom(pairs, block.start), row |-> block.row]

\* ---- actions: one public call of instance i on the thread id ----
\* A caller gets past `with thread_state.lock` only when the lock is free.
CanCall(i) == threads[i].lock = "free"

Outcome(res) == IF res.raised = "none" THEN "ok" ELSE res.raised

Return(i, op, res) ==
    /\ threads' = [threads EXCEPT ![i] = res.ts]
    /\ table' = res.table
    /\ uuid_count' = IF threads[i].exists THEN uuid_count ELSE uuid_count + 1
    /\ last_call' = [op |-> op, instance |-> i, outcome |-> Outcome(res)]

OnSessionStart(i) ==
    /\ CanCall(i)
    /\ \E get_ok, query_ok \in BOOLEAN :
           Return(i, "on_session_start",
                  on_session_start(GetThreadState(i), snapshot, table, get_ok, query_ok))
    /\ UNCHANGED <<config, snapshot, meta_row, restarts, produced>>

AddUserMessage(i) ==
    /\ CanCall(i)
    /\ Return(i, "add_user_message",
              add_user_message(GetThreadState(i), table, Len(produced) + 1))
    /\ produced' = Append(produced, GetThreadState(i).next_seq)
    /\ UNCHANGED <<config, snapshot, meta_row, restarts>>

\* add_assistant_message against a store whose answers are among `outcomes`.
AddAssistantMessageWith(i, outcomes) ==
    /\ CanCall(i)
    /\ \E w1, w2 \in outcomes :
           Return(i, "add_assistant_message",
                  add_assistant_message(GetThreadState(i), table,
                                        Len(produced) + 1, w1, w2))
    /\ produced' = IF threads'[i].next_seq # GetThreadState(i).next_seq
                   THEN Append(produced, GetThreadState(i).next_seq) ELSE produced
    /\ UNCHANGED <<config, snapshot, meta_row, restarts>>

AddAssistantMessage(i) == AddAssistantMessageWith(i, WriteOutcomes)

FlushBatch(i) ==
    /\ CanCall(i)
    /\ \E w \in WriteOutcomes :
           Return(i, "flush_batch", flush_batch(GetThreadState(i), table, w))
    /\ UNCHANGED <<config, snapshot, meta_row, restarts, produced>>

FlushAll(i) ==
    /\ CanCall(i)
    /\ \E w \in WriteOutcomes :
           Return(i, "flush_all", flush_all(GetThreadState(i), table, w))
    /\ UNCHANGED <<config, snapshot, meta_row, restarts, produced>>

\* on_session_end is flush_all (memory_manager.py:243-246).
OnSessionEnd(i) ==
    /\ CanCall(i)
    /\ \E w \in WriteOutcomes :
           Return(i, "on_session_end", flush_all(GetThreadState(i), table, w))
    /\ UNCHANGED <<config, snapshot, meta_row, restarts, produced>>

\* get_context_for_llm returns get_context_for_llm(threads'[i]): the call leaves
\* the thread state as _get_thread_state gave it.
GetContextForLlm(i) ==
    /\ CanCall(i)
    /\ Return(i, "get_context_for_llm", Running(GetThreadState(i), table))
    /\ UNCHANGED <<config, snapshot, meta_row, restarts, produced>>

\* ---- environment ----
\* One second passes: time.time() - last_activity_at grows for every thread state.
Tick ==
    /\ \E i \in Instances :
           threads[i].exists /\ threads[i].idle_time <= SESSION_IDLE_SECONDS
    /\ threads' = [i \in Instances |->
                      IF threads[i].exists /\ threads[i].idle_time <= SESSION_IDLE_SECONDS
                      THEN [threads[i] EXCEPT !.idle_time = @ + 1] ELSE threads[i]]
    /\ UNCHANGED <<config, table, snapshot, meta_row, uuid_count, restarts, produced, last_call>>

\* The process of instance i is killed and started again: its memory is lost.
Crash(i) ==
    /\ threads[i].exists
    /\ restarts < MaxRestarts
    /\ threads' = [threads EXCEPT ![i] = NoThreadState]
    /\ restarts' = restarts + 1
    /\ UNCHANGED <<config, table, snapshot, meta_row, uuid_count, produced, last_call>>

\* ---- initial states ----
\* The conversation-state item a deployment may hold: n complete pairs, turns 1..n,
\* and possibly the user half of pair n+1.  Its messages are older than any
\* message of the run: their ids are negative, in the order of the list.
SnapshotPair(t) ==
    <<[role |-> "user", turn |-> t, id |-> (2 * t - 1) - (2 * MaxSnapshotPairs + 2)],
      [role |-> "assistant", turn |-> t, id |-> (2 * t) - (2 * MaxSnapshotPairs + 2)]>>

RECURSIVE SnapshotPairs(_)
SnapshotPairs(n) == IF n = 0 THEN <<>> ELSE SnapshotPairs(n - 1) \o SnapshotPair(n)

SnapshotOf(n, open) ==
    [present |-> TRUE,
     messages |-> SnapshotPairs(n) \o (IF open THEN <<SnapshotPair(n + 1)[1]>> ELSE <<>>)]

SnapshotInputs ==
    {NoItem} \cup {SnapshotOf(n, open) : n \in 0..MaxSnapshotPairs, open \in BOOLEAN}

\* Bound of the model: messages built in a run; fewer when the table holds a
\* conversation-state item, whose reload multiplies the states.
WithinBudget ==
    Len(produced) < (IF snapshot.present THEN MaxLegacyMessages ELSE MaxMessages)

NoCall == [op |-> "none", instance |-> 0, outcome |-> "none"]

InitMemory ==
    /\ threads = [i \in Instances |-> NoThreadState]
    /\ table = {}
    /\ meta_row = -1
    /\ uuid_count = 0
    /\ restarts = 0
    /\ produced = <<>>
    /\ last_call = NoCall
    /\ worker = [w \in Workers |-> [calls |-> 0, result |-> "running"]]
    /\ caller = [c \in Callers |-> [pc |-> "idle", count |-> 0, start |-> 0, created |-> FALSE]]
    /\ writer = NoWrite
    /\ sweep = NoSweep
    /\ discarded = {}

\* ---- Spec: one process instance serving the thread, calls one after another ----
\* The shape of the deployed configuration (15 / 20 / 50 pairs, 6 hours), scaled
\* down: CONTEXT_PAIRS + BATCH_PAIRS - 1 <= MAX_RAM_PAIRS.
Init ==
    /\ InitMemory
    /\ mgr = NoManager
    /\ config = Config(1, 1, 2, 2)
    /\ snapshot \in SnapshotInputs

Next ==
    \/ OnSessionStart(1) /\ UNCHANGED <<worker, caller, writer, sweep, mgr, discarded>>
    \/ WithinBudget /\ AddUserMessage(1) /\ UNCHANGED <<worker, caller, writer, sweep, mgr, discarded>>
    \/ WithinBudget /\ AddAssistantMessage(1) /\ UNCHANGED <<worker, caller, writer, sweep, mgr, discarded>>
    \/ GetContextForLlm(1) /\ UNCHANGED <<worker, caller, writer, sweep, mgr, discarded>>
    \/ FlushBatch(1) /\ UNCHANGED <<worker, caller, writer, sweep, mgr, discarded>>
    \/ FlushAll(1) /\ UNCHANGED <<worker, caller, writer, sweep, mgr, discarded>>
    \/ OnSessionEnd(1) /\ UNCHANGED <<worker, caller, writer, sweep, mgr, discarded>>
    \/ Tick /\ UNCHANGED <<worker, caller, writer, sweep, mgr, discarded>>
    \/ Crash(1) /\ UNCHANGED <<worker, caller, writer, sweep, mgr, discarded>>

Spec == Init /\ [][Next]_vars

\* ---- SpecConc: test_thread_safety, workers calling the same instance ----
\* Each worker runs PairsPerWorker times add_user_message then
\* add_assistant_message inside one try block; an exception ends the worker.
Advance(wk, outcome) ==
    IF outcome # "ok" THEN [wk EXCEPT !.result = "error"]
    ELSE IF wk.calls + 1 = 2 * PairsPerWorker
    THEN [calls |-> wk.calls + 1, result |-> "success"]
    ELSE [wk EXCEPT !.calls = @ + 1]

WorkerAddUser(w) ==
    /\ worker[w].result = "running"
    /\ worker[w].calls % 2 = 0
    /\ AddUserMessage(1)
    /\ worker' = [worker EXCEPT ![w] = Advance(worker[w], last_call'.outcome)]
    /\ UNCHANGED <<caller, writer, sweep, mgr, discarded>>

WorkerAddAssistant(w) ==
    /\ worker[w].result = "running"
    /\ worker[w].calls % 2 = 1
    /\ AddAssistantMessage(1)
    /\ worker' = [worker EXCEPT ![w] = Advance(worker[w], last_call'.outcome)]
    /\ UNCHANGED <<caller, writer, sweep, mgr, discarded>>

\* No eviction in the test: its 15 pairs fit the window of 15.
InitConc ==
    /\ InitMemory
    /\ mgr = NoManager
    /\ config = Config(1, NumWorkers * PairsPerWorker, 3, NumWorkers * PairsPerWorker + 2)
    /\ snapshot = NoItem

NextConc == \E w \in Workers : WorkerAddUser(w) \/ WorkerAddAssistant(w)

SpecConc == InitConc /\ [][NextConc]_vars

\* ---- SpecMulti: several process instances on the same thread id and table ----
InitMulti ==
    /\ InitMemory
    /\ mgr = NoManager
    /\ config = Config(1, 1, 2, 2)
    /\ snapshot = NoItem

WithinMultiBudget == Len(produced) < MaxMultiMessages

NextMulti ==
    \E i \in Instances :
        \/ OnSessionStart(i) /\ UNCHANGED <<worker, caller, writer, sweep, mgr, discarded>>
        \/ WithinMultiBudget /\ AddUserMessage(i) /\ UNCHANGED <<worker, caller, writer, sweep, mgr, discarded>>
        \/ WithinMultiBudget /\ AddAssistantMessage(i) /\ UNCHANGED <<worker, caller, writer, sweep, mgr, discarded>>
        \/ FlushAll(i) /\ UNCHANGED <<worker, caller, writer, sweep, mgr, discarded>>

SpecMulti == InitMulti /\ [][NextMulti]_vars

\* ---- SpecReserve: concurrent _reserve_seq_block calls, one store call per step ----
\* First step of a call: `if count <= 0: return 0`, else the conditional put_item.
ReservePut(c) ==
    /\ caller[c].pc = "idle"
    /\ \E count \in 0..MaxCount :
           IF count <= 0
           THEN /\ caller' = [caller EXCEPT ![c] =
                                  [pc |-> "done", count |-> count, start |-> 0,
                                   created |-> FALSE]]
                /\ meta_row' = meta_row
           ELSE /\ caller' = [caller EXCEPT ![c] =
                                  [pc |-> "update", count |-> count, start |-> 0,
                                   created |-> (meta_row = -1)]]
                /\ meta_row' = PutIfAbsent(meta_row)
    /\ UNCHANGED <<config, threads, table, snapshot, uuid_count, restarts, produced,
                   last_call, worker, writer, sweep, mgr, discarded>>

\* Second step: the atomic ADD and the computation of start_seq.
ReserveUpdate(c) ==
    /\ caller[c].pc = "update"
    /\ meta_row' = AtomicAdd(meta_row, caller[c].count)
    /\ caller' = [caller EXCEPT ![c].pc = "done",
                                ![c].start = BlockStart(meta_row', caller[c].count)]
    /\ UNCHANGED <<config, threads, table, snapshot, uuid_count, restarts, produced,
                   last_call, worker, writer, sweep, mgr, discarded>>

InitReserve == InitMulti

NextReserve == \E c \in Callers : ReservePut(c) \/ ReserveUpdate(c)

SpecReserve == InitReserve /\ [][NextReserve]_vars

\* ---- SpecAccount: sequential pairs on a fresh thread, the store accepts all ----
\* The deployed configuration (memory_utils.py:21-24) and two smaller ones in
\* which the RAM ceiling cannot be reached either.
AccountConfigs == {Config(21600, 15, 20, 50), Config(1, 1, 2, 2), Config(1, 2, 3, 4)}

InitAccount ==
    /\ InitMemory
    /\ mgr = NoManager
    /\ config \in AccountConfigs
    /\ snapshot = NoItem

WithinAccountBudget == Len(produced) < 2 * MaxAccountPairs

NextAccount ==
    \/ /\ WithinAccountBudget
       /\ GetThreadState(1).open_pair = NoPair
       /\ AddUserMessage(1)
       /\ UNCHANGED <<worker, caller, writer, sweep, mgr, discarded>>
    \/ /\ GetThreadState(1).open_pair # NoPair
       /\ AddAssistantMessageWith(1, {"ok"})
       /\ UNCHANGED <<worker, caller, writer, sweep, mgr, discarded>>

SpecAccount == InitAccount /\ [][NextAccount]_vars

\* ---- SpecWrite: one _batch_write_pairs call, one store call or sleep per step ----
\* The argument: n complete pairs with the seqs 1 .. 2n the manager gives them, or,
\* with dup, the last pair holding one seq twice (as after the seq reuse of a reload).
WritePair(t, dup) ==
    [turn |-> t,
     user_message |-> Message("user", 2 * t - 1, t, 2 * t - 1),
     assistant_message |-> Message("assistant", IF dup THEN 2 * t - 1 ELSE 2 * t, t, 2 * t)]

RECURSIVE WritePairs(_, _)
WritePairs(n, dup) ==
    IF n = 0 THEN <<>> ELSE Append(WritePairs(n - 1, FALSE), WritePair(n, dup))

\* The argument of a call in which the messages at the positions `miss` (counted
\* user, assistant, user, ...) were built without a seq.
WithoutSeq(pairs, miss) ==
    [t \in DOMAIN pairs |->
        [pairs[t] EXCEPT !.user_message.seq = IF 2 * t - 1 \in miss THEN NoSeq ELSE @,
                         !.assistant_message.seq = IF 2 * t \in miss THEN NoSeq ELSE @]]

\* The argument of a call whose last pair has no assistant message (a pair the
\* reload left incomplete in context_pairs).
UserOnlyLast(pairs) ==
    IF pairs = <<>> THEN pairs
    ELSE [pairs EXCEPT ![Len(pairs)].assistant_message = NoMessage]

\* Lines 144-188: the empty-list return, the seqs of the messages without one, the
\* items, the dup-key guard, i = 0.
WriteStart ==
    /\ writer.pc = "idle"
    /\ \E n \in 0..MaxWritePairs, dup, user_only \in BOOLEAN :
       \E miss \in SUBSET (1..Min2(2 * n, MaxMissing)) :
           LET given == WritePairs(n, dup /\ n > 0)
               pairs == WithoutSeq(IF user_only THEN UserOnlyLast(given) ELSE given, miss)
               assigned == assign_seqs_for_flush(pairs, meta_row)
               items == Items(assigned.pairs, 1)
           IN IF pairs = <<>>
              THEN /\ writer' = [NoWrite EXCEPT !.pc = "done"]
                   /\ meta_row' = meta_row
              ELSE /\ writer' = IF HasDuplicateKey(items)
                                THEN [NoWrite EXCEPT !.pc = "RuntimeError",
                                                     !.pairs = pairs, !.items = items]
                                ELSE WhileItems([NoWrite EXCEPT !.pairs = pairs,
                                                                !.items = items])
                   /\ meta_row' = assigned.row
    /\ UNCHANGED <<config, threads, table, snapshot, uuid_count, restarts,
                   produced, last_call, worker, caller, sweep, mgr, discarded>>

\* Lines 193-197: batch_write_item raises ClientError, or the store puts some of
\* the requests (here: the first k) and returns the others as UnprocessedItems.
WriteAttempt ==
    /\ writer.pc = "write"
    /\ \/ /\ writer' = [writer EXCEPT !.pc = "ClientError"]
          /\ table' = table
       \/ \E k \in 0..Len(writer.chunk) :
             LET un == SubSeq(writer.chunk, k + 1, Len(writer.chunk)) IN
             /\ table' = PutAll(table, SubSeq(writer.chunk, 1, k))
             /\ writer' = IF un = <<>>
                           THEN WhileItems([writer EXCEPT !.i = @ + CHUNK])
                           ELSE [writer EXCEPT !.pc = "sleep", !.chunk = un,
                                               !.sleep = SleepTime(writer.backoff)]
    /\ UNCHANGED <<config, threads, snapshot, meta_row, uuid_count, restarts,
                   produced, last_call, worker, caller, sweep, mgr, discarded>>

\* Lines 198-199: the sleep is over, backoff doubles, the loop calls the store again.
WriteSleep ==
    /\ writer.pc = "sleep"
    /\ writer' = [writer EXCEPT !.pc = "write", !.sleep = 0,
                                !.backoff = NextBackoff(writer.backoff)]
    /\ UNCHANGED <<config, threads, table, snapshot, meta_row, uuid_count, restarts,
                   produced, last_call, worker, caller, sweep, mgr, discarded>>

InitWrite == InitMulti

NextWrite == WriteStart \/ WriteAttempt \/ WriteSleep

SpecWrite == InitWrite /\ [][NextWrite]_vars

\* The thread running the call is scheduled again and again.
SpecWriteFair == SpecWrite /\ WF_vars(NextWrite)

\* ---- SpecSweep: the atexit hook of a manager that served several thread ids ----
\* Before shutdown: the first call for thread id t registers its ThreadState
\* (_get_thread_state); the conversation leaves n complete pairs in its window,
\* with dup the two messages of the pair holding one seq (as after a reload).
SweepServe(t) ==
    /\ sweep.pc = "idle"
    /\ t \notin Range(sweep.registry)
    /\ \E n \in 0..1, dup \in BOOLEAN :
           /\ dup => n > 0
           /\              sweep' = [sweep EXCEPT
               !.registry = Append(@, t),
               !.states = [u \in Range(sweep.registry) \cup {t} |->
                              IF u = t
                              THEN [NewThreadState(t) EXCEPT
                                        !.context_pairs = WritePairs(n, dup),
                                        !.next_seq = 2 * n + 1, !.next_turn = n + 1]
                              ELSE sweep.states[u]],
               !.tables = [u \in Range(sweep.registry) \cup {t} |->
                              IF u = t THEN {} ELSE sweep.tables[u]]]
    /\ UNCHANGED <<config, threads, table, snapshot, meta_row, uuid_count, restarts,
                   produced, last_call, worker, caller, writer, mgr, discarded>>

\* `elapsed > timeout_seconds` (memory_manager.py:425)
TimedOut_Never(elapsed) == FALSE

TimedOut(elapsed) == elapsed > timeout_seconds

Caught_Nothing(exc) == FALSE

\* `except Exception` around flush_all (memory_manager.py:432): RuntimeError and
\* ClientError are both subclasses of Exception.
Caught(exc) == exc \in {"RuntimeError", "ClientError"}

\* start_time = time.time(), then `with self._global_lock`.
SweepLock ==
    /\ sweep.pc = "idle"
    /\ sweep' = [sweep EXCEPT !.pc = "copy", !.elapsed = 0, !.locks = {"_global_lock"}]
    /\ UNCHANGED <<config, threads, table, snapshot, meta_row, uuid_count, restarts,
                   produced, last_call, worker, caller, writer, mgr, discarded>>

\* thread_ids = list(self.threads.keys()), and the end of the with block.
SweepCopy ==
    /\ sweep.pc = "copy"
    /\ sweep' = [sweep EXCEPT !.pc = "loop", !.thread_ids = sweep.registry,
                              !.locks = {}, !.k = 1]
    /\ UNCHANGED <<config, threads, table, snapshot, meta_row, uuid_count, restarts,
                   produced, last_call, worker, caller, writer, mgr, discarded>>

\* One round of the for loop that passes the deadline test: flush_all of the
\* k-th thread id under that thread's lock; it takes d seconds.  An exception
\* that is caught is logged and the loop goes on, one that is not ends the loop.
SweepFlush ==
    /\ sweep.pc = "loop"
    /\ sweep.k <= Len(sweep.thread_ids)
    /\ ~TimedOut(sweep.elapsed)
    /\ \E w \in WriteOutcomes, d \in 0..MaxFlushSeconds :
           LET t == sweep.thread_ids[sweep.k]
               res == flush_all(sweep.states[t], sweep.tables[t], w)
           IN sweep' = [sweep EXCEPT
                  !.states[t] = res.ts,
                  !.tables[t] = res.table,
                  !.started = Append(@, t),
                  !.outcomes = Append(@, res.raised),
                  !.pc = IF res.raised = "none" \/ Caught(res.raised)
                         THEN "loop" ELSE "raised",
                  !.k = @ + 1,
                  !.elapsed = Min2(@ + d, timeout_seconds + 1)]
    /\ UNCHANGED <<config, threads, table, snapshot, meta_row, uuid_count, restarts,
                   produced, last_call, worker, caller, writer, mgr, discarded>>

\* The loop ends: every thread id was visited, or the deadline test breaks out.
SweepStop ==
    /\ sweep.pc = "loop"
    /\ sweep.k > Len(sweep.thread_ids) \/ TimedOut(sweep.elapsed)
    /\ sweep' = [sweep EXCEPT !.pc = "done"]
    /\ UNCHANGED <<config, threads, table, snapshot, meta_row, uuid_count, restarts,
                   produced, last_call, worker, caller, writer, mgr, discarded>>

InitSweep == InitMulti

NextSweep ==
    \/ \E t \in 1..MaxThreads : SweepServe(t)
    \/ SweepLock
    \/ SweepCopy
    \/ SweepFlush
    \/ SweepStop

SpecSweep == InitSweep /\ [][NextSweep]_vars

\* ---- SpecLock: public calls of several request threads, one lock step at a time ----
PublicOps ==
    {"on_session_start", "add_user_message", "add_assistant_message",
     "get_context_for_llm", "flush_batch", "flush_all"}

\* The body of a public method under `with thread_state.lock`, the store answering
\* w; a message built by the call has its seq as id.
OpResult(op, ts, tbl, id, w) ==
    CASE op = "on_session_start" -> on_session_start(ts, NoItem, tbl, w = "ok", w = "ok")
      [] op = "add_user_message" -> add_user_message(ts, tbl, id)
      [] op = "add_assistant_message" -> add_assistant_message(ts, tbl, id, w, w)
      [] op = "flush_batch" -> flush_batch(ts, tbl, w)
      [] op = "flush_all" -> flush_all(ts, tbl, w)
      [] OTHER -> Running(ts, tbl)

\* The body gets as far as a call of the store: the reload of on_session_start
\* (get_item / query), or a batch_write_item, which is reached exactly when a failing
\* store makes the call raise ClientError.
ReachesStore(op, ts, tbl) ==
    IF op = "on_session_start" THEN ~is_session_idle(ts) /\ ts.context_pairs = <<>>
    ELSE OpResult(op, ts, tbl, 0, "ClientError").raised = "ClientError"

GlobalFree_Always(owner) == TRUE

\* `with self._global_lock` is entered only when no thread holds the lock.
GlobalFree(owner) == owner = 0

ReleaseGlobal_Kept(owner) == owner

\* The end of the with block of _get_thread_state: the lock has no owner.
ReleaseGlobal(owner) == IF owner # 0 THEN 0 ELSE owner

Lookup_Latest(registry, tid) == Max({registry[t] : t \in DOMAIN registry})

\* self.threads[thread_id]
Lookup(registry, tid) == registry[tid]

\* A request thread calls a public method for a thread id: _get_thread_state enters
\* `with self._global_lock:` and tests `thread_id not in self.threads`; when the
\* ThreadState is there it is returned and the lock released.
Call(c) ==
    /\ mgr.proc[c].pc = "idle"
    /\ mgr.calls < MaxCalls
    /\ GlobalFree(mgr.global_lock)
    /\ \E op \in PublicOps, tid \in ThreadIds :
           LET during == {d \in Clients \ {c} :
                             mgr.proc[d].pc = "in_store" /\ mgr.proc[d].tid # tid}
           IN mgr' = IF mgr.registry[tid] = 0
                     THEN [mgr EXCEPT
                              !.calls = @ + 1,
                              !.global_lock = c,
                              !.proc[c] = [pc |-> "create", op |-> op, tid |-> tid,
                                           ref |-> 0, during |-> during]]
                     ELSE [mgr EXCEPT
                              !.calls = @ + 1,
                              !.global_lock = ReleaseGlobal(c),
                              !.proc[c] = [pc |-> "acquire", op |-> op, tid |-> tid,
                                           ref |-> Lookup(mgr.registry, tid),
                                           during |-> during]]
    /\ UNCHANGED <<config, threads, table, snapshot, meta_row, uuid_count, restarts,
                   produced, last_call, worker, caller, writer, sweep, discarded>>

\* self.threads[thread_id] = ThreadState(...); return self.threads[thread_id].
GetCreate(c) ==
    /\ mgr.proc[c].pc = "create"
    /\ LET o == Len(mgr.objects) + 1
           registry == [mgr.registry EXCEPT ![mgr.proc[c].tid] = o]
       IN mgr' = [mgr EXCEPT
              !.objects = Append(@, NewThreadState(o)),
              !.thread_id = Append(@, mgr.proc[c].tid),
              !.lock = Append(@, 0),
              !.registry = registry,
              !.proc[c].pc = "acquire",
              !.proc[c].ref = Lookup(registry, mgr.proc[c].tid),
              !.global_lock = ReleaseGlobal(@)]
    /\ UNCHANGED <<config, threads, table, snapshot, meta_row, uuid_count, restarts,
                   produced, last_call, worker, caller, writer, sweep, discarded>>

\* The call returns (or raises): the with block releases the thread lock.
Complete(c, res) ==
    LET p == mgr.proc[c] IN
    [mgr EXCEPT
        !.objects[p.ref] = res.ts,
        !.tables[p.tid] = res.table,
        !.lock[p.ref] = 0,
        !.proc = [d \in Clients |->
                     IF d = c THEN [NoProc EXCEPT !.during = p.during]
                     ELSE [mgr.proc[d] EXCEPT !.during = @ \ {c}]]]

\* `with thread_state.lock:` is entered only when no thread holds the lock.
LockFree(owner) == owner = 0

\* `with thread_state.lock:` of the public method and its body up to the first
\* store call.  on_session_start on an idle session calls flush_all, which waits
\* for thread_state.lock: this thread holds it and a threading.Lock is not
\* re-entrant, so no step of the model leaves pc "flush_all".
Acquire(c) ==
    /\ mgr.proc[c].pc = "acquire"
    /\ LockFree(mgr.lock[mgr.proc[c].ref])
    /\ LET p == mgr.proc[c]
           ts == mgr.objects[p.ref]
           tbl == mgr.tables[p.tid]
       IN mgr' = IF p.op = "on_session_start" /\ is_session_idle(ts)
                 THEN [mgr EXCEPT !.lock[p.ref] = c, !.proc[c].pc = "flush_all"]
                 ELSE IF ReachesStore(p.op, ts, tbl)
                 THEN [mgr EXCEPT !.lock[p.ref] = c, !.proc[c].pc = "in_store"]
                 ELSE Complete(c, OpResult(p.op, ts, tbl, ts.next_seq, "ok"))
    /\ UNCHANGED <<config, threads, table, snapshot, meta_row, uuid_count, restarts,
                   produced, last_call, worker, caller, writer, sweep, discarded>>

\* The store answers; the rest of the body runs and the call returns or raises.
StoreAnswer(c) ==
    /\ mgr.proc[c].pc = "in_store"
    /\ \E w \in WriteOutcomes :
           LET p == mgr.proc[c] IN
           mgr' = Complete(c, OpResult(p.op, mgr.objects[p.ref], mgr.tables[p.tid],
                                       mgr.objects[p.ref].next_seq, w))
    /\ UNCHANGED <<config, threads, table, snapshot, meta_row, uuid_count, restarts,
                   produced, last_call, worker, caller, writer, sweep, discarded>>

\* One second passes for every ThreadState (time.time() - last_activity_at).
Elapse ==
    /\ \E o \in DOMAIN mgr.objects : mgr.objects[o].idle_time <= SESSION_IDLE_SECONDS
    /\ mgr' = [mgr EXCEPT !.objects =
                  [o \in DOMAIN mgr.objects |->
                      IF mgr.objects[o].idle_time <= SESSION_IDLE_SECONDS
                      THEN [mgr.objects[o] EXCEPT !.idle_time = @ + 1]
                      ELSE mgr.objects[o]]]
    /\ UNCHANGED <<config, threads, table, snapshot, meta_row, uuid_count, restarts,
                   produced, last_call, worker, caller, writer, sweep, discarded>>

\* The manager after add_user_message and add_assistant_message for thread id 1.
Served ==
    [NoManager EXCEPT
        !.registry[1] = 1,
        !.objects = <<[NewThreadState(1) EXCEPT !.context_pairs = WritePairs(1, FALSE),
                                                !.next_seq = 3, !.next_turn = 2]>>,
        !.thread_id = <<1>>,
        !.lock = <<0>>]

\* A session is idle one second after its last activity; window and batch of one pair.
InitLock ==
    /\ InitMemory
    /\ mgr \in {NoManager, Served}
    /\ config = Config(0, 1, 1, 2)
    /\ snapshot = NoItem

NextLock ==
    \/ \E c \in Clients :
           \/ Call(c)
           \/ GetCreate(c)
           \/ Acquire(c)
           \/ StoreAnswer(c)
    \/ Elapse

SpecLock == InitLock /\ [][NextLock]_vars

\* ---- SpecSeq: concurrent get_next_seq_from_dynamodb calls, one store call per step ----
\* (memory_utils.py:84-117) caller[c].pc is the store call the caller makes next,
\* count the ClientErrors it met that were not about the row, start the value it
\* returned, created whether its put_item made the meta row.
NewCounterRow_Zero(row) == IF row = -1 THEN 0 ELSE row

\* put_item with attribute_not_exists(thread_id): makes the meta row, next_seq = 1.
NewCounterRow(row) == IF row = -1 THEN 1 ELSE row

\* update_item "ADD next_seq :one", UPDATED_NEW; ADD on an absent row starts at 0.
AddOne(row) == AtomicAdd(IF row = -1 THEN 0 ELSE row, 1)

\* A store call may answer with a ClientError that is not about the row
\* (throttling, a transient fault): at most MaxFaults times in one call.
MayFail(c) == caller[c].count < MaxFaults

\* try: update_item; return the new next_seq / except ClientError: go on to put_item.
\* While the row is absent the update is either applied (the store's upsert) or
\* refused (the case the except branch is written for).
SeqUpdate(c) ==
    /\ caller[c].pc \in {"idle", "update"}
    /\ \/ /\ meta_row' = AddOne(meta_row)
          /\ caller' = [caller EXCEPT ![c].pc = "done", ![c].start = meta_row']
       \/ /\ meta_row = -1 \/ MayFail(c)
          /\ meta_row' = meta_row
          /\ caller' = [caller EXCEPT ![c].pc = "put",
                                      ![c].count = IF meta_row = -1 THEN @ ELSE @ + 1]
    /\ UNCHANGED <<config, threads, table, snapshot, uuid_count, restarts, produced,
                   last_call, worker, writer, sweep, mgr, discarded>>

\* try: conditional put_item; return 1 / except ClientError: call the function again.
SeqPut(c) ==
    /\ caller[c].pc = "put"
    /\ \/ /\ meta_row = -1
          /\ meta_row' = NewCounterRow(meta_row)
          /\ caller' = [caller EXCEPT ![c].pc = "done", ![c].start = 1,
                                      ![c].created = TRUE]
       \/ /\ meta_row # -1
          /\ meta_row' = meta_row
          /\ caller' = [caller EXCEPT ![c].pc = "update"]
       \/ /\ meta_row = -1
          /\ MayFail(c)
          /\ meta_row' = meta_row
          /\ caller' = [caller EXCEPT ![c].pc = "update", ![c].count = @ + 1]
    /\ UNCHANGED <<config, threads, table, snapshot, uuid_count, restarts, produced,
                   last_call, worker, writer, sweep, mgr, discarded>>

InitSeq == InitMulti

NextSeq == \E c \in Callers : SeqUpdate(c) \/ SeqPut(c)

SpecSeq == InitSeq /\ [][NextSeq]_vars

\* Every request thread gets processor time.
SpecSeqFair == SpecSeq /\ WF_vars(NextSeq)

\* ---- SpecDiscard: one instance, with the record of what flush_all dropped ----
\* flush_all ends with `thread_state.open_pair = None` (memory_manager.py:377): an
\* open pair that is not complete was not among all_pairs (lines 363-364), and the
\* seq its user message consumed goes to the record.
Discard(i) ==
    discarded' = IF /\ last_call'.outcome = "ok"
                    /\ threads[i].open_pair # NoPair
                    /\ ~is_complete(threads[i].open_pair)
                 THEN discarded \cup {threads[i].open_pair.user_message.seq}
                 ELSE discarded

InitDiscard == InitMulti

NextDiscard ==
    \/ OnSessionStart(1) /\ UNCHANGED <<worker, caller, writer, sweep, mgr, discarded>>
    \/ WithinBudget /\ AddUserMessage(1)
          /\ UNCHANGED <<worker, caller, writer, sweep, mgr, discarded>>
    \/ WithinBudget /\ AddAssistantMessage(1)
          /\ UNCHANGED <<worker, caller, writer, sweep, mgr, discarded>>
    \/ FlushAll(1) /\ Discard(1) /\ UNCHANGED <<worker, caller, writer, sweep, mgr>>
    \/ OnSessionEnd(1) /\ Discard(1) /\ UNCHANGED <<worker, caller, writer, sweep, mgr>>
    \/ Tick /\ UNCHANGED <<worker, caller, writer, sweep, mgr, discarded>>

SpecDiscard == InitDiscard /\ [][NextDiscard]_vars

\* ---- properties ----
InMemoryPairs(i) == threads[i].context_pairs \o threads[i].batch_pairs

\* C1: add_user_message (start_turn) on a thread that has an open pair fails with
\* an error and leaves the open pair in place.
C1_StartTurnRejectsOpenPair ==
    [][\A i \in Instances :
          (/\ threads[i].open_pair # NoPair
           /\ last_call'.instance = i
           /\ AddUserMessage(i))
          => /\ last_call'.outcome # "ok"
             /\ threads'[i].open_pair = threads[i].open_pair]_vars

\* C2: add_assistant_message (complete_turn) on a thread without an open pair
\* raises ValueError and leaves next_seq, next_turn, context_pairs, batch_pairs,
\* open_pair and the durable table unchanged.
C2_CompleteTurnWithoutOpenPair ==
    [][\A i \in Instances :
          (/\ threads[i].open_pair = NoPair
           /\ last_call'.instance = i
           /\ AddAssistantMessage(i))
          => /\ last_call'.outcome = "ValueError"
             /\ threads'[i].next_seq = threads[i].next_seq
             /\ threads'[i].next_turn = threads[i].next_turn
             /\ threads'[i].context_pairs = threads[i].context_pairs
             /\ threads'[i].batch_pairs = threads[i].batch_pairs
             /\ threads'[i].open_pair = NoPair
             /\ table' = table]_vars

\* A failed complete_turn on a thread that already holds pairs and has used seqs.
C2_Witness ==
    /\ last_call = [op |-> "add_assistant_message", instance |-> 1,
                    outcome |-> "ValueError"]
    /\ threads[1].next_seq > 1
    /\ threads[1].context_pairs # <<>>

\* C3: after each add_assistant_message (complete_turn), also in runs that reload
\* history in on_session_start, context_pairs holds at most CONTEXT_PAIRS pairs.
C3_WindowingInvariant ==
    \A i \in Instances :
        (last_call = [op |-> "add_assistant_message", instance |-> i, outcome |-> "ok"])
        => Len(threads[i].context_pairs) <= CONTEXT_PAIRS

\* C4: after every operation, context_pairs and batch_pairs together hold at most
\* MAX_RAM_PAIRS pairs.
C4_RamCeiling ==
    \A i \in Instances :
        Len(threads[i].context_pairs) + Len(threads[i].batch_pairs) <= MAX_RAM_PAIRS

\* C5: the seqs of all messages ever built for the thread are strictly increasing
\* in creation order, across flush_all / on_session_start and process restarts.
C5_SeqStrictlyIncreasing ==
    \A j, k \in DOMAIN produced : j < k => produced[j] < produced[k]

\* No row of the table is replaced by a row of another message, and none is removed.
RowsKept ==
    \A r \in table : \E q \in table' : q.seq = r.seq /\ q.id = r.id

\* C6: no record of the durable table is ever overwritten by a different message.
C6_DurableKeyUniqueness == [][RowsKept]_vars

AllWorkersDone == \A w \in Workers : worker[w].result # "running"

\* C7: when the workers of test_thread_safety have all finished, every one ended
\* with "success" and the thread holds NumWorkers * PairsPerWorker pairs.
C7_ConcurrentWorkersSucceed ==
    AllWorkersDone
    => /\ \A w \in Workers : worker[w].result = "success"
       /\ Len(InMemoryPairs(1)) = NumWorkers * PairsPerWorker

\* C8: instances sharing the table never give a new message a seq that an earlier
\* message of the thread has, and no flush overwrites a row of another message.
C8_MultiInstanceSeqSafety ==
    [][/\ (produced' # produced
            => \A k \in DOMAIN produced : produced[k] # produced'[Len(produced')])
       /\ RowsKept]_vars

Reserved == {c \in Callers : caller[c].pc = "done" /\ caller[c].count > 0}

Block(c) == caller[c].start .. (caller[c].start + caller[c].count - 1)

\* C9: the ranges returned by _reserve_seq_block for count > 0 are pairwise
\* disjoint, start at 1 on a fresh thread and are adjacent: together they are
\* exactly 1 .. next_seq of the counter row, whatever the interleaving.
C9_ReservedBlocksDisjoint ==
    /\ \A c, d \in Reserved : c # d => Block(c) \cap Block(d) = {}
    /\ UNION {Block(c) : c \in Reserved} = 1..(IF meta_row = -1 THEN 0 ELSE meta_row)

\* Every caller has returned, two of them lost the race on creating the row.
C9_Witness ==
    /\ Reserved = Callers
    /\ Cardinality({c \in Callers : ~caller[c].created}) >= 2
    /\ \E c, d \in Callers : c # d /\ caller[c].count # caller[d].count

\* C10: on_session_start on a thread idle for more than SESSION_IDLE_SECONDS
\* returns, having written every in-memory pair to the table, changed session_id,
\* emptied batch_pairs and open_pair, and set context_pairs to the reloaded pairs;
\* no row is deleted.
C10_IdleRotation ==
    [][\A i \in Instances :
          (/\ threads[i].exists /\ is_session_idle(threads[i])
           /\ last_call'.instance = i
           /\ OnSessionStart(i))
          => /\ last_call'.outcome = "ok"
             /\ threads'[i].session_id # threads[i].session_id
             /\ threads'[i].batch_pairs = <<>>
             /\ threads'[i].open_pair = NoPair
             /\ \A k \in DOMAIN InMemoryPairs(i) :
                    \A m \in {InMemoryPairs(i)[k].user_message,
                              InMemoryPairs(i)[k].assistant_message} :
                        \E r \in table' : r.seq = m.seq /\ r.id = m.id
             /\ \E get_ok, query_ok \in BOOLEAN :
                    threads'[i].context_pairs =
                        load_conversation_state_from_dynamodb(snapshot, table',
                                                              get_ok, query_ok)
             /\ RowsKept]_vars

\* C11: flush_all / on_session_end, on a store that accepts the write, returns
\* with every pair of context_pairs and batch_pairs written to the table,
\* context_pairs and batch_pairs empty, open_pair absent, and next_seq, next_turn
\* and session_id unchanged.
C11_FlushAllWritesAndClears ==
    [][\A i \in Instances :
          (/\ last_call'.instance = i
           /\ last_call'.op \in {"flush_all", "on_session_end"}
           /\ last_call'.outcome # "ClientError"
           /\ (FlushAll(i) \/ OnSessionEnd(i)))
          => /\ last_call'.outcome = "ok"
             /\ Range(Items(AllPairs(GetThreadState(i)), GetThreadState(i).session_id))
                    \subseteq table'
             /\ threads'[i].context_pairs = <<>>
             /\ threads'[i].batch_pairs = <<>>
             /\ threads'[i].open_pair = NoPair
             /\ threads'[i].next_seq = GetThreadState(i).next_seq
             /\ threads'[i].next_turn = GetThreadState(i).next_turn
             /\ threads'[i].session_id = GetThreadState(i).session_id]_vars

\* Number of add_user_message / add_assistant_message pairs issued so far.
PairsIssued == Len(produced) \div 2

Evicted == IF PairsIssued > CONTEXT_PAIRS THEN PairsIssued - CONTEXT_PAIRS ELSE 0

\* C12: after k sequential pairs on a fresh thread with an empty store that
\* accepts every write, context_pairs holds min(k, CONTEXT_PAIRS) pairs,
\* batch_pairs holds max(0, k - CONTEXT_PAIRS) mod BATCH_PAIRS pairs and the table
\* holds 2 * BATCH_PAIRS * floor(max(0, k - CONTEXT_PAIRS) / BATCH_PAIRS) rows
\* (15 / 20 / 50: 40 rows per flush).
C12_PairAccounting ==
    threads[1].open_pair = NoPair
    => /\ Len(threads[1].context_pairs) = Min2(PairsIssued, CONTEXT_PAIRS)
       /\ Len(threads[1].batch_pairs) = Evicted % BATCH_PAIRS
       /\ Cardinality(table) = 2 * BATCH_PAIRS * (Evicted \div BATCH_PAIRS)

\* 37 pairs under 15 / 20 / 50: one flush of 20 pairs has happened, 2 pairs wait.
C12_Witness ==
    /\ config = Config(21600, 15, 20, 50)
    /\ threads[1].open_pair = NoPair
    /\ PairsIssued = 37
    /\ Len(threads[1].batch_pairs) = 2
    /\ Cardinality(table) = 40

\* C13: in every reachable state get_context_for_llm (window_for_caller) returns at
\* most 2 * CONTEXT_PAIRS + 1 entries, and at most 2 * CONTEXT_PAIRS when no pair
\* is open.
C13_WindowForCallerBound ==
    \A i \in Instances :
        Len(get_context_for_llm(threads[i]))
            <= 2 * CONTEXT_PAIRS + (IF threads[i].open_pair # NoPair THEN 1 ELSE 0)

\* C14: get_context_for_llm returns the entries of context_pairs oldest first and
\* then the user entry of the open pair: in creation order, roles alternating
\* from "user", one more than twice the pairs of the window when a pair is open,
\* the last entry then being the user message of the open pair; the call changes
\* neither the thread state nor the table.
C14_WindowForCallerOrder ==
    [][\A i \in Instances :
          (/\ last_call'.instance = i
           /\ last_call'.op = "get_context_for_llm"
           /\ GetContextForLlm(i))
          => LET ts == GetThreadState(i)
                 returned == get_context_for_llm(threads'[i])
             IN /\ threads'[i] = ts
                /\ table' = table
                /\ \A k \in DOMAIN returned :
                       returned[k].role = IF k % 2 = 1 THEN "user" ELSE "assistant"
                /\ \A j, k \in DOMAIN returned : j < k => returned[j].id < returned[k].id
                /\ ts.open_pair # NoPair
                       => /\ Len(returned) = 2 * Len(ts.context_pairs) + 1
                          /\ returned[Len(returned)].id = ts.open_pair.user_message.id]_vars

WriteEnded == writer.pc \in {"done", "RuntimeError", "ClientError"}

\* C15: every _batch_write_pairs call ends: it does not retry the unprocessed
\* items of a chunk for ever.
C15_DurableWriteTerminates == <>WriteEnded

\* C16: add_assistant_message (complete_turn) on an open pair returns normally
\* whatever the store answers to the automatic flush; the completed pair is the
\* newest of context_pairs and next_turn has advanced by one.
C16_FlushFailureNotRaised ==
    [][\A i \in Instances :
          (/\ threads[i].open_pair # NoPair
           /\ last_call'.instance = i
           /\ last_call'.op = "add_assistant_message"
           /\ AddAssistantMessage(i))
          => /\ last_call'.outcome = "ok"
             /\ threads'[i].context_pairs # <<>>
             /\ threads'[i].context_pairs[Len(threads'[i].context_pairs)].user_message
                    = threads[i].open_pair.user_message
             /\ threads'[i].next_turn = threads[i].next_turn + 1]_vars

\* Both messages of the pair have their row in the table.
Recorded(p, tbl) ==
    \A m \in {p.user_message, p.assistant_message} :
        \E r \in tbl : r.seq = m.seq /\ r.id = m.id /\ r.role = m.role

\* C17: while the process lives, a complete pair held in context_pairs or
\* batch_pairs leaves memory only when it is fully recorded in the table (a
\* failed write leaves it in memory), and a row written by the live process is
\* never replaced by another message.
C17_AtLeastOncePersistence ==
    [][restarts' = restarts
       => \A i \in Instances :
            /\ \A k \in DOMAIN InMemoryPairs(i) :
                   LET p == InMemoryPairs(i)[k] IN
                   is_complete(p)
                   => \/ \E j \in DOMAIN InMemoryPairs(i)' : InMemoryPairs(i)'[j] = p
                      \/ Recorded(p, table')
            /\ \A r \in table :
                   (threads[i].exists /\ r.session_id = threads[i].session_id)
                   => \E q \in table' : q.seq = r.seq /\ q.id = r.id]_vars

\* C18: an on_session_start that finds context_pairs empty and returns leaves in
\* context_pairs the pairs the store returned; when there are some, next_seq is
\* one more than the greatest seq and next_turn one more than the greatest turn
\* of the loaded pairs; when there are none, next_seq and next_turn are unchanged.
C18_ColdStartReconstruction ==
    [][\A i \in Instances :
          (/\ last_call'.instance = i
           /\ last_call'.op = "on_session_start"
           /\ last_call'.outcome = "ok"
           /\ GetThreadState(i).context_pairs = <<>>
           /\ OnSessionStart(i))
          => LET loaded == threads'[i].context_pairs
                 seqs == {loaded[k].user_message.seq : k \in DOMAIN loaded}
                         \cup {loaded[k].assistant_message.seq : k \in DOMAIN loaded}
                 turns == {loaded[k].turn : k \in DOMAIN loaded}
             IN /\ \E get_ok, query_ok \in BOOLEAN :
                       loaded = load_conversation_state_from_dynamodb(
                                    snapshot, table, get_ok, query_ok)
                /\ loaded # <<>>
                       => /\ threads'[i].next_seq - 1 \in seqs
                          /\ \A q \in seqs : q < threads'[i].next_seq
                          /\ threads'[i].next_turn - 1 \in turns
                          /\ \A t \in turns : t < threads'[i].next_turn
                /\ loaded = <<>>
                       => /\ threads'[i].next_seq = GetThreadState(i).next_seq
                          /\ threads'[i].next_turn = GetThreadState(i).next_turn]_vars

\* A restarted process has reloaded, from rows written before the restart, a
\* pair it did not build.
C18_Witness ==
    /\ last_call = [op |-> "on_session_start", instance |-> 1, outcome |-> "ok"]
    /\ restarts = 1
    /\ ~snapshot.present
    /\ threads[1].context_pairs # <<>>
    /\ Recorded(threads[1].context_pairs[1], table)
    /\ \A r \in table : r.session_id # threads[1].session_id
    /\ threads[1].next_seq > 1

\* C19: the next_seq and next_turn of a thread state never decrease, and the
\* next_seq an on_session_start recomputes from the store is greater than every
\* seq handed out for the thread before.
C19_CounterMonotonicity ==
    [][\A i \in Instances :
          /\ (threads[i].exists /\ threads'[i].exists)
                 => /\ threads'[i].next_seq >= threads[i].next_seq
                    /\ threads'[i].next_turn >= threads[i].next_turn
          /\ (/\ last_call'.instance = i
              /\ last_call'.op = "on_session_start"
              /\ GetThreadState(i).context_pairs = <<>>
              /\ threads'[i].context_pairs # <<>>
              /\ OnSessionStart(i))
                 => \A k \in DOMAIN produced : produced[k] < threads'[i].next_seq]_vars

\* C20: the shutdown hook copies the registered thread ids while it holds the
\* registry lock and no other lock, then calls flush_all for the thread ids in
\* the order of the copy, one at a time, and starts no flush once more than
\* timeout_seconds have passed since the start: the others are skipped.
C20_ShutdownSweepDeadline ==
    [][/\ sweep'.pc = "copy" => sweep'.locks = {"_global_lock"}
       /\ sweep'.pc \in {"loop", "done"}
              => sweep'.thread_ids = sweep'.registry /\ sweep'.locks = {}
       /\ sweep'.started # sweep.started
              => /\ Len(sweep.started) < Len(sweep.thread_ids)
                 /\ sweep'.started =
                        Append(sweep.started, sweep.thread_ids[Len(sweep.started) + 1])
                 /\ sweep.elapsed <= timeout_seconds
       /\ sweep'.pc = "done"
              => \/ Len(sweep'.started) = Len(sweep'.thread_ids)
                 \/ sweep'.elapsed > timeout_seconds]_vars

\* The deadline passed during the first flush; the second thread was skipped.
C20_Witness ==
    /\ sweep.pc = "done"
    /\ Len(sweep.thread_ids) = 2
    /\ sweep.started = <<sweep.thread_ids[1]>>
    /\ sweep.elapsed > timeout_seconds

\* C21: an exception of flush_all for one thread id (ClientError of the store,
\* RuntimeError of the dup-key guard) does not end the shutdown hook: the hook
\* never ends by raising, and when it ends within the deadline flush_all was
\* called for every thread id of the copy, in its order.
C21_ShutdownErrorIsolation ==
    /\ sweep.pc # "raised"
    /\ Len(sweep.outcomes) = Len(sweep.started)
    /\ sweep.started = SubSeq(sweep.thread_ids, 1, Len(sweep.started))
    /\ (sweep.pc = "done" /\ sweep.elapsed <= timeout_seconds)
           => sweep.started = sweep.thread_ids

\* Both flushes failed, one on the dup-key guard and one on the store, and the
\* hook still went through the whole copy.
C21_Witness ==
    /\ sweep.pc = "done"
    /\ sweep.outcomes = <<"RuntimeError", "ClientError">>
    /\ sweep.started = sweep.thread_ids

\* The fields of a ThreadState a public method changes, apart from last_activity_at.
Fields(ts) ==
    <<ts.session_id, ts.next_seq, ts.next_turn, ts.context_pairs, ts.batch_pairs,
      ts.open_pair>>

\* Client c ends, in this step, a call it made for thread id t.
Returns(c, t) ==
    /\ mgr.proc[c].pc \in {"acquire", "in_store"}
    /\ mgr.proc[c].tid = t
    /\ mgr'.proc[c].pc = "idle"

\* C22: _global_lock is held only inside _get_thread_state, while a ThreadState is
\* fetched or created; a client inside a store call holds the lock of its
\* ThreadState and not _global_lock; the fields of a ThreadState change only in a
\* step of a client that holds, or takes in that step, the lock of that object.
C22_LockDiscipline ==
    [][/\ \A c \in Clients :
              /\ mgr'.global_lock = c => mgr'.proc[c].pc = "create"
              /\ mgr'.proc[c].pc = "in_store"
                     => /\ mgr'.global_lock # c
                        /\ mgr'.lock[mgr'.proc[c].ref] = c
       /\ \A o \in DOMAIN mgr.objects :
              Fields(mgr'.objects[o]) # Fields(mgr.objects[o])
              => \E c \in Clients :
                     /\ Returns(c, mgr.thread_id[o])
                     /\ mgr.proc[c].ref = o
                     /\ mgr.lock[o] \in {0, c}
                     /\ mgr.global_lock # c]_vars

\* One client waits for the store inside flush_all with the lock of its
\* ThreadState, another holds _global_lock and is creating a ThreadState.
C22_Witness ==
    \E c, d \in Clients :
        /\ mgr.proc[c].pc = "in_store"
        /\ mgr.proc[c].op = "flush_all"
        /\ mgr.lock[mgr.proc[c].ref] = c
        /\ mgr.proc[d].pc = "create"
        /\ mgr.global_lock = d

\* C23: a public call for thread id A changes neither the ThreadState nor the rows
\* of another thread id B, and it waits for and holds only the lock of A's
\* ThreadState: it can run from entry to return while a call for B is inside a
\* store call.
C23_ThreadIsolation ==
    [][/\ \A o \in DOMAIN mgr.objects :
              Fields(mgr'.objects[o]) # Fields(mgr.objects[o])
              => \E c \in Clients : Returns(c, mgr.thread_id[o])
       /\ \A t \in ThreadIds :
              mgr'.tables[t] # mgr.tables[t] => \E c \in Clients : Returns(c, t)
       /\ \A c \in Clients :
              mgr'.proc[c].pc \in {"acquire", "in_store", "flush_all"}
              => mgr'.thread_id[mgr'.proc[c].ref] = mgr'.proc[c].tid]_vars

\* Client c made a whole call, which changed A's ThreadState, while client d was
\* inside one store call for another thread id, where d still is.
C23_Witness ==
    \E c, d \in Clients :
        /\ mgr.proc[c].pc = "idle"
        /\ d \in mgr.proc[c].during
        /\ mgr.proc[d].pc = "in_store"
        /\ \E o \in DOMAIN mgr.objects :
               /\ mgr.thread_id[o] # mgr.proc[d].tid
               /\ mgr.objects[o].open_pair # NoPair

\* C26: _get_thread_state creates the ThreadState of a thread id on the first
\* access, with next_seq = 1, next_turn = 1, empty context_pairs and batch_pairs and
\* no open pair; there is never a second object for the thread id, the object of
\* a thread id in self.threads is never replaced or removed, and every caller
\* gets the object that self.threads holds for its thread id.
C26_RegistryGetOrCreate ==
    [][/\ \A o1, o2 \in DOMAIN mgr'.thread_id :
              mgr'.thread_id[o1] = mgr'.thread_id[o2] => o1 = o2
       /\ \A t \in ThreadIds :
              mgr.registry[t] # 0 => mgr'.registry[t] = mgr.registry[t]
       /\ \A c \in Clients :
              mgr'.proc[c].ref # 0 => mgr'.proc[c].ref = mgr'.registry[mgr'.proc[c].tid]
       /\ Len(mgr'.objects) # Len(mgr.objects)
              => /\ Len(mgr'.objects) = Len(mgr.objects) + 1
                 /\ SubSeq(mgr'.objects, 1, Len(mgr.objects)) = mgr.objects
                 /\ LET new == mgr'.objects[Len(mgr'.objects)] IN
                    /\ new.next_seq = 1
                    /\ new.next_turn = 1
                    /\ new.context_pairs = <<>>
                    /\ new.batch_pairs = <<>>
                    /\ new.open_pair = NoPair]_vars

\* The first two calls of the process are for the same thread id and overlap:
\* one object was created and both clients hold a reference to it.
C26_Witness ==
    \E c, d \in Clients :
        /\ c # d
        /\ mgr.calls = 2
        /\ Len(mgr.objects) = 1
        /\ mgr.objects[1].session_id = 1
        /\ mgr.objects[1].next_seq = 1
        /\ mgr.proc[c].pc # "idle" /\ mgr.proc[d].pc # "idle"
        /\ mgr.proc[c].tid = mgr.proc[d].tid
        /\ mgr.proc[c].ref = 1 /\ mgr.proc[d].ref = 1

\* C27: no public call waits for a thread lock that the calling thread itself
\* holds, so every call can go on to its return.
C27_NoSelfDeadlock ==
    \A c \in Clients :
        mgr.proc[c].pc \in {"acquire", "flush_all"}
        => mgr.lock[mgr.proc[c].ref] # c

\* C24: flush_batch on a thread whose batch_pairs is empty calls no write of the
\* store (it returns normally whatever the store would answer) and changes
\* neither the thread state nor the table; a flush_batch that follows a
\* flush_batch that returned, and a flush_all / on_session_end that follows a
\* flush_all / on_session_end that returned, with no call in between, calls no
\* write of the store and leaves the table as it is.
C24_IdempotentFlush ==
    [][\A i \in Instances :
          /\ (/\ last_call'.instance = i
              /\ last_call'.op = "flush_batch"
              /\ GetThreadState(i).batch_pairs = <<>>
              /\ FlushBatch(i))
                 => /\ last_call'.outcome = "ok"
                    /\ table' = table
                    /\ threads'[i] = GetThreadState(i)
          /\ (/\ last_call = [op |-> "flush_batch", instance |-> i, outcome |-> "ok"]
              /\ last_call'.instance = i
              /\ last_call'.op = "flush_batch"
              /\ FlushBatch(i))
                 => last_call'.outcome = "ok" /\ table' = table
          /\ (/\ last_call.instance = i
              /\ last_call.op \in {"flush_all", "on_session_end"}
              /\ last_call.outcome = "ok"
              /\ last_call'.instance = i
              /\ last_call'.op \in {"flush_all", "on_session_end"}
              /\ (FlushAll(i) \/ OnSessionEnd(i)))
                 => last_call'.outcome = "ok" /\ table' = table]_vars

\* After a flush_batch that returned: the one evicted pair is in the table, the
\* batch is empty and the window still holds the newer pair.
C24_Witness ==
    /\ last_call = [op |-> "flush_batch", instance |-> 1, outcome |-> "ok"]
    /\ restarts = 0
    /\ threads[1].batch_pairs = <<>>
    /\ Len(threads[1].context_pairs) = 1
    /\ threads[1].context_pairs[1].turn = 2
    /\ Cardinality(table) = 2
    /\ \A r \in table : r.turn = 1 /\ r.session_id = threads[1].session_id

\* The pairs a flushing call hands to _batch_write_pairs first.
PairsToWrite(op, ts) == IF op = "flush_batch" THEN ts.batch_pairs ELSE AllPairs(ts)

\* Two records built from the pairs have the same seq (NoMessage has seq 0, a
\* message of the manager a seq >= 1).
SameSeqTwice(pairs) ==
    \E j, k \in DOMAIN pairs :
        \/ /\ j < k
           /\ \/ pairs[j].user_message.seq = pairs[k].user_message.seq
              \/ pairs[j].user_message.seq = pairs[k].assistant_message.seq
              \/ /\ is_complete(pairs[j])
                 /\ \/ pairs[j].assistant_message.seq = pairs[k].user_message.seq
                    \/ pairs[j].assistant_message.seq = pairs[k].assistant_message.seq
        \/ j = k /\ pairs[j].user_message.seq = pairs[j].assistant_message.seq

\* C28: when the records built for one write hold two records with the same
\* (thread_id, seq), the flush raises RuntimeError, the table is as before (no
\* batch_write_item was reached) and the thread state is not cleared: flush_batch,
\* flush_all and on_session_end leave it as it was, and an add_assistant_message
\* that raises RuntimeError still holds the pairs it tried to write.
C28_DuplicateKeyDefense ==
    [][\A i \in Instances :
          /\ (/\ last_call'.instance = i
              /\ last_call'.op \in {"flush_batch", "flush_all", "on_session_end"}
              /\ SameSeqTwice(PairsToWrite(last_call'.op, GetThreadState(i)))
              /\ (FlushBatch(i) \/ FlushAll(i) \/ OnSessionEnd(i)))
                 => /\ last_call'.outcome = "RuntimeError"
                    /\ table' = table
                    /\ threads'[i] = GetThreadState(i)
          /\ (/\ last_call'.instance = i
              /\ last_call'.op = "add_assistant_message"
              /\ last_call'.outcome = "RuntimeError"
              /\ AddAssistantMessage(i))
                 => /\ table' = table
                    /\ threads'[i].batch_pairs # <<>>
                    /\ SameSeqTwice(threads'[i].batch_pairs)
          /\ last_call'.outcome = "RuntimeError" => table' = table]_vars

\* flush_all was rejected by the guard: the pairs are still in memory, the table
\* holds no row of them.
C28_Witness ==
    /\ last_call = [op |-> "flush_all", instance |-> 1, outcome |-> "RuntimeError"]
    /\ Len(threads[1].context_pairs) >= 2
    /\ table = {}

\* C29: an add_assistant_message (complete_turn) on an open pair appends the
\* completed pair to context_pairs and, only when the window then exceeds
\* CONTEXT_PAIRS, moves exactly its head to the tail of batch_pairs, the completed
\* pair staying last in the window; and after every step batch_pairs followed by
\* context_pairs is in strictly increasing turn order.
C29_FifoEviction ==
    [][\A i \in Instances :
          /\ (/\ threads[i].open_pair # NoPair
              /\ last_call'.instance = i
              /\ last_call'.op = "add_assistant_message"
              /\ AddAssistantMessage(i))
                 => LET window == threads[i].context_pairs
                        after == threads'[i].batch_pairs \o threads'[i].context_pairs
                        before == threads[i].batch_pairs \o threads[i].context_pairs
                    IN /\ threads'[i].context_pairs # <<>>
                       /\ threads'[i].context_pairs[Len(threads'[i].context_pairs)].user_message
                              = threads[i].open_pair.user_message
                       /\ Len(threads'[i].context_pairs) \in {Len(window), Len(window) + 1}
                       /\ Len(threads'[i].context_pairs) = Len(window)
                              => Len(window) + 1 > CONTEXT_PAIRS
                       /\ Len(threads'[i].context_pairs) = Len(window) + 1
                              => Len(window) + 1 <= CONTEXT_PAIRS
                       /\ threads'[i].batch_pairs # <<>>
                              => SubSeq(after, 1, Len(after) - 1) = before
          /\ LET q == threads'[i].batch_pairs \o threads'[i].context_pairs
             IN \A j, k \in DOMAIN q : j < k => q[j].turn < q[k].turn]_vars

\* C30: add_user_message takes the seq next_seq and advances next_seq by one, gives
\* the open pair and its user message the turn next_turn and leaves next_turn; an
\* add_assistant_message that returns takes one seq, gives the assistant message
\* the turn of the open pair, advances next_turn by one and clears open_pair; and
\* in every complete pair in memory both messages have the turn of the pair and
\* the seq of the user message is smaller than the seq of the assistant message.
C30_TurnAndSeqStamping ==
    [][\A i \in Instances :
          /\ (/\ last_call'.instance = i
              /\ last_call'.op = "add_user_message"
              /\ AddUserMessage(i))
                 => LET ts == GetThreadState(i)
                        open == threads'[i].open_pair
                    IN /\ threads'[i].next_seq = ts.next_seq + 1
                       /\ threads'[i].next_turn = ts.next_turn
                       /\ open.turn = ts.next_turn
                       /\ open.user_message.turn = ts.next_turn
                       /\ open.user_message.seq = ts.next_seq
                       /\ open.assistant_message = NoMessage
          /\ (/\ threads[i].open_pair # NoPair
              /\ last_call'.instance = i
              /\ last_call'.op = "add_assistant_message"
              /\ last_call'.outcome = "ok"
              /\ AddAssistantMessage(i))
                 => LET done == threads'[i].context_pairs[Len(threads'[i].context_pairs)]
                    IN /\ threads'[i].next_seq = threads[i].next_seq + 1
                       /\ threads'[i].next_turn = threads[i].next_turn + 1
                       /\ threads'[i].open_pair = NoPair
                       /\ done.assistant_message.seq = threads[i].next_seq
                       /\ done.assistant_message.turn = threads[i].open_pair.turn
          /\ \A k \in DOMAIN InMemoryPairs(i)' :
                 LET p == InMemoryPairs(i)'[k] IN
                 is_complete(p)
                 => /\ p.user_message.turn = p.turn
                    /\ p.assistant_message.turn = p.turn
                    /\ p.user_message.seq < p.assistant_message.seq]_vars

\* C25: get_next_seq_from_dynamodb on a thread with no counter row: the callers
\* that have returned hold pairwise distinct values within 1..next_seq of the row,
\* a call that returns while no other call is in progress returns k when k - 1
\* calls have returned before it (the first one 1), and every call returns in the end.
Returned == {c \in Callers : caller[c].pc = "done"}

C25_NextSeqCounter ==
    /\ [](/\ \A c, d \in Returned : c # d => caller[c].start # caller[d].start
          /\ \A c \in Returned : caller[c].start \in 1..meta_row)
    /\ [][\A c \in Callers :
             (/\ caller[c].pc # "done"
              /\ caller'[c].pc = "done"
              /\ \A d \in Callers \ {c} : caller[d].pc \in {"idle", "done"})
                 => caller'[c].start = Cardinality(Returned) + 1]_vars
    /\ <>(Returned = Callers)

\* Two callers found no row and went on to put_item: one made the row and
\* returned 1, the other is about to be refused and to retry; a third returned 2.
C25_Witness ==
    \E c, d, e \in Callers :
        /\ caller[c].pc = "done" /\ caller[c].created /\ caller[c].start = 1
        /\ caller[d].pc = "put"
        /\ caller[e].pc = "done" /\ caller[e].start = 2

\* C31: an on_session_start on a ThreadState that is not idle (at most
\* SESSION_IDLE_SECONDS since the last activity) and whose context_pairs is not
\* empty only resets the idle time: every other field and the table are unchanged,
\* and the answers of the store have no part in the result; the session_id of a
\* ThreadState changes only in an on_session_start that finds it idle.
C31_SessionStartFrame ==
    [][\A i \in Instances :
          /\ (/\ threads[i].exists
              /\ threads[i].idle_time <= SESSION_IDLE_SECONDS
              /\ threads[i].context_pairs # <<>>
              /\ last_call'.instance = i
              /\ last_call'.op = "on_session_start"
              /\ OnSessionStart(i))
                 => /\ threads'[i] = [threads[i] EXCEPT !.idle_time = 0]
                    /\ table' = table
                    /\ last_call'.outcome = "ok"
                    /\ \A get_ok, query_ok \in BOOLEAN :
                           on_session_start(threads[i], snapshot, table, get_ok, query_ok)
                               = Running(mark_activity(threads[i]), table)
          /\ (/\ threads[i].exists
              /\ threads'[i].exists
              /\ threads'[i].session_id # threads[i].session_id)
                 => /\ last_call'.instance = i
                    /\ last_call'.op = "on_session_start"
                    /\ is_session_idle(threads[i])]_vars

\* on_session_start returned on a ThreadState that holds a pair although the store
\* holds nothing to reload: the call took the branch that reloads nothing.
C31_Witness ==
    /\ last_call.op = "on_session_start"
    /\ last_call.outcome = "ok"
    /\ threads[last_call.instance].context_pairs # <<>>
    /\ threads[last_call.instance].idle_time = 0
    /\ table = {}
    /\ ~snapshot.present

\* C32: in the step that starts a durable write of a non-empty list of pairs, a
\* message that has a seq is written with that seq; when no message lacks a seq
\* the counter row is untouched; otherwise the counter grows once, by the number
\* of messages without a seq, and these get the seqs of that block one after the
\* other in pair order, the user message before the assistant message.
C32_SeqAssignmentAtFlush ==
    [][(writer.pc = "idle" /\ writer'.pairs # <<>>)
          => LET msgs == MessagesOf(writer'.pairs)
                 items == writer'.items
                 lacking == {k \in DOMAIN msgs : msgs[k].seq = NoSeq}
                 count == Cardinality(lacking)
             IN /\ Len(items) = Len(msgs)
                /\ \A k \in DOMAIN msgs :
                       /\ items[k].id = msgs[k].id
                       /\ k \notin lacking => items[k].seq = msgs[k].seq
                       /\ k \in lacking =>
                              items[k].seq = meta_row' - count
                                             + Cardinality({j \in lacking : j <= k})
                /\ count = 0 => meta_row' = meta_row
                /\ count > 0 =>
                       meta_row' = (IF meta_row = -1 THEN 0 ELSE meta_row) + count]_vars

\* A write that returned: the first three messages had no seq and the fourth
\* had one; the block of three seqs was reserved.
C32_Witness ==
    /\ writer.pc = "done"
    /\ Len(writer.pairs) >= 2
    /\ writer.pairs[1].user_message.seq = NoSeq
    /\ writer.pairs[1].assistant_message.seq = NoSeq
    /\ writer.pairs[2].user_message.seq = NoSeq
    /\ writer.pairs[2].assistant_message.seq # NoSeq
    /\ meta_row = 3

\* C33: a durable write has one item per message of its pairs, in order (the
\* user and, when present, the assistant of each pair); the chunk being sent holds
\* at most 25 items, all of them among items[i+1..i+25] with i a multiple of 25,
\* and all items before i are in the table; a store answer with unprocessed items
\* leaves exactly those as the chunk of the next request, and i moves on only when
\* the answer has none; when the write returns every item is in the table.
C33_ChunkedWrite ==
    /\ [](/\ (writer.pairs # <<>>) =>
                (/\ Len(writer.items) = Len(MessagesOf(writer.pairs))
                 /\ \A k \in DOMAIN writer.items :
                        /\ writer.items[k].id = MessagesOf(writer.pairs)[k].id
                        /\ writer.items[k].role = MessagesOf(writer.pairs)[k].role)
          /\ writer.pc \in {"write", "sleep"} =>
                /\ writer.chunk # <<>>
                /\ Len(writer.chunk) <= CHUNK
                /\ writer.i % CHUNK = 0
                /\ writer.i < Len(writer.items)
                /\ Range(writer.chunk) \subseteq Range(ChunkAt(writer.items, writer.i))
                /\ Range(ChunkAt(writer.items, writer.i)) \ Range(writer.chunk) \subseteq table
                /\ Range(SubSeq(writer.items, 1, writer.i)) \subseteq table
          /\ (writer.pc = "done" => Range(writer.items) \subseteq table))
    /\ [][/\ (writer.pc = "write" /\ writer'.pc = "sleep")
               => /\ writer'.i = writer.i
                  /\ Range(writer'.chunk) \subseteq Range(writer.chunk)
                  /\ Range(writer.chunk) \ Range(writer'.chunk) \subseteq table'
                  /\ \A r \in Range(writer'.chunk) : (r \in table' => r \in table)
          /\ (writer.pc = "sleep" => (writer'.chunk = writer.chunk /\ table' = table))
          /\ (writer.pc = "write" /\ writer'.i # writer.i)
               => /\ writer'.i = writer.i + CHUNK
                  /\ Range(writer.chunk) \subseteq table'
                  /\ (writer'.pc = "write"
                         => writer'.chunk = ChunkAt(writer.items, writer'.i))]_vars

\* A write of more than 25 items returned after the store had left items of the
\* last chunk unprocessed at least once; the last pair had no assistant message.
C33_Witness ==
    /\ writer.pc = "done"
    /\ Len(writer.items) > CHUNK
    /\ Len(writer.items) % 2 = 1
    /\ writer.backoff > InitialBackoff
    /\ Range(writer.items) \subseteq table

\* C34: a flush_all or on_session_end that returns on a ThreadState whose open
\* pair has no assistant message writes no row for the pending user message and
\* clears open_pair, so that add_assistant_message on the state it leaves raises
\* ValueError; and no row of the table ever holds the seq of such a user message.
C34_FlushAllDiscardsOpenPair ==
    /\ [][\A i \in Instances :
             (/\ threads[i].exists
              /\ threads[i].open_pair # NoPair
              /\ ~is_complete(threads[i].open_pair)
              /\ last_call'.instance = i
              /\ last_call'.op \in {"flush_all", "on_session_end"}
              /\ last_call'.outcome = "ok"
              /\ (FlushAll(i) \/ OnSessionEnd(i)))
                 => /\ threads'[i].open_pair = NoPair
                    /\ \A r \in table' : r.id # threads[i].open_pair.user_message.id
                    /\ \A w1, w2 \in WriteOutcomes :
                           add_assistant_message(threads'[i], table', 0, w1, w2).raised
                               = "ValueError"]_vars
    /\ [](\A r \in table : r.seq \notin discarded)

\* C35: every pair in context_pairs or batch_pairs has a user and an assistant
\* message, the pairs that on_session_start reloaded included, and the open pair
\* is not at the same time one of the pairs in context_pairs or batch_pairs.
C35_StoredPairsComplete ==
    \A i \in Instances :
        LET held == threads[i].context_pairs \o threads[i].batch_pairs IN
        \A k \in DOMAIN held :
            /\ held[k].user_message # NoMessage
            /\ is_complete(held[k])
            /\ threads[i].open_pair # NoPair
                  => held[k].user_message.id # threads[i].open_pair.user_message.id

====
